---- MODULE Spec2Model ----
(***************************************************************************)
(* A model of app.py: the roster partition (select_and_process_csv,        *)
(* write_results_to_csv) and the request handlers around it (login_required,*)
(* index, cleanup_old_results, download_file, auth_callback, logout).       *)
(*                                                                         *)
(* SpecPartition explores the partition pipeline over all small rosters;   *)
(* SpecWeb one browser sending every kind of request, one at a time;       *)
(* SpecFiles concurrent index requests on the uploads/ and results/        *)
(* folders.                                                                *)
(***************************************************************************)
EXTENDS Integers, Sequences, FiniteSets, TLC

VARIABLES
    \* ---- partition pipeline ----
    df,          \* the table pd.read_csv returned: [columns, data]
    n,           \* the requested selection size
    outcome,     \* what select_and_process_csv did: none / ok / error
    csv,         \* the text table write_results_to_csv produced (rows of fields)
    \* ---- web application ----
    clock,       \* time.time(), in seconds
    ticks,       \* how many times the clock has advanced
    session,     \* flask session: a function whose domain may hold "user"
    uploads,     \* UPLOAD_FOLDER: secure filename -> roster content
    resultsDir,  \* whether RESULTS_FOLDER exists
    results,     \* RESULTS_FOLDER: results filename (guid) -> [mtime, content]
    guid,        \* uuid4 source: number of results filenames handed out
    started,     \* number of index requests that got past login_required
    req,         \* per worker thread: the index request it is serving
    last         \* the request that entered the application last

pvars == <<df, n, outcome, csv>>
wvars == <<clock, ticks, session, uploads, resultsDir, results, guid, started, req, last>>
vars == <<df, n, outcome, csv, clock, ticks, session, uploads, resultsDir,
          results, guid, started, req, last>>

----------------------------------------------------------------------------
\* Bounds of the model.
MaxRows == 3
MaxN == 3

\* pandas' missing value; to_csv writes it as the empty field.
NaN == "NaN"
Names == {"Ann", "Bob", "Cy"}
Cells == Names \cup {NaN}
ColumnSets == {{"Name"}, {"Email"}}

RECURSIVE SeqsUpTo(_, _)
SeqsUpTo(S, k) ==
    IF k = 0 THEN {<<>>}
    ELSE LET shorter == SeqsUpTo(S, k - 1)
         IN shorter \cup {Append(s, x) : s \in {t \in shorter : Len(t) = k - 1}, x \in S}

Range(s) == {s[i] : i \in DOMAIN s}

\* Every way to pick k distinct positions out of m, in every order.
Injections(k, m) ==
    {f \in [1..k -> 1..m] : \A i, j \in 1..k : i # j => f[i] # f[j]}

----------------------------------------------------------------------------
\* pandas Series: a sequence of entries [idx |-> label, val |-> value].

\* df[column_name]: the column with the default RangeIndex 0..m-1 of read_csv.
Column(d) == [i \in 1..Len(d.data) |-> [idx |-> i - 1, val |-> d.data[i]]]

\* Series.sample(n=k): every choice of k distinct rows in every order.
sample(s, k) ==
    {[i \in 1..k |-> s[f[i]]] : f \in Injections(k, Len(s))}

\* people_list[~people_list.index.isin(selected.index)]
not_isin(s, sel) ==
    LET taken == {sel[i].idx : i \in DOMAIN sel}
        keep(e) == e.idx \notin taken
    IN SelectSeq(s, keep)

\* Series.reset_index(drop=True): positions 0..len-1 become the labels.
reset_index(s) == [i \in 1..Len(s) |-> [idx |-> i - 1, val |-> s[i].val]]

values(s) == [i \in 1..Len(s) |-> s[i].val]

ColumnNotFound == [type |-> "ValueError", msg |-> "Column 'Name' not found in the CSV file"]
NotEnoughPeople == [type |-> "ValueError", msg |-> "Not enough people in the list to select n people"]

\* The checks of select_and_process_csv, in the order the code makes them:
\* the error raised, or "none".
select_error_swapped(d, k) ==
    IF Len(d.data) < k THEN NotEnoughPeople
    ELSE IF "Name" \notin d.columns THEN ColumnNotFound
    ELSE [type |-> "none", msg |-> ""]

select_error(d, k) ==
    IF "Name" \notin d.columns THEN ColumnNotFound
    ELSE IF Len(d.data) < k THEN NotEnoughPeople
    ELSE [type |-> "none", msg |-> ""]

\* Every (selected_people, remaining_people) pair select_and_process_csv can
\* return when no check fails.
select_and_process_csv_by_value(d, k) ==
    LET people_list == Column(d)
        dropNames(s, sel) ==
            LET taken == {sel[i].val : i \in DOMAIN sel}
                keep(e) == e.val \notin taken
            IN SelectSeq(s, keep)
    IN UNION {
         {[selected |-> reset_index(selected_people),
           remaining |-> reset_index(shuffled)]
            : shuffled \in sample(dropNames(people_list, selected_people),
                                  Len(dropNames(people_list, selected_people)))}
         : selected_people \in sample(people_list, k)}

select_and_process_csv_short(d, k) ==
    LET people_list == Column(d)
    IN UNION {
         {[selected |-> reset_index(selected_people),
           remaining |-> reset_index(shuffled)]
            : shuffled \in sample(not_isin(people_list, selected_people),
                                  Len(not_isin(people_list, selected_people)))}
         : selected_people \in sample(people_list, IF k > 1 THEN k - 1 ELSE k)}

select_and_process_csv(d, k) ==
    LET people_list == Column(d)
    IN UNION {
         {[selected |-> reset_index(selected_people),
           remaining |-> reset_index(shuffled)]
            : shuffled \in sample(not_isin(people_list, selected_people),
                                  Len(not_isin(people_list, selected_people)))}
         : selected_people \in sample(people_list, k)}

\* DataFrame({...: Series, ...: Series}).to_csv(index=False): the two Series
\* are aligned on the union of their labels, a label one of them lacks gives
\* NaN, and NaN is written as the empty field.
Max(a, b) == IF a >= b THEN a ELSE b

at(s, label) ==
    IF \E i \in DOMAIN s : s[i].idx = label
    THEN (CHOOSE e \in Range(s) : e.idx = label).val
    ELSE NaN

to_field(v) == IF v = NaN THEN "" ELSE v

Header == <<"Selected People", "Remaining People">>

write_results_to_csv_truncating(selected_people, remaining_people) ==
    LET rows == IF Len(selected_people) <= Len(remaining_people)
                THEN Len(selected_people) ELSE Len(remaining_people)
    IN <<Header>> \o
       [i \in 1..rows |-> <<to_field(at(selected_people, i - 1)),
                            to_field(at(remaining_people, i - 1))>>]

write_results_to_csv(selected_people, remaining_people) ==
    LET rows == Max(Len(selected_people), Len(remaining_people))
    IN <<Header>> \o
       [i \in 1..rows |-> <<to_field(at(selected_people, i - 1)),
                            to_field(at(remaining_people, i - 1))>>]

----------------------------------------------------------------------------
\* The partition pipeline: load table -> partition -> serialize.

NoOutcome == [status |-> "none", error |-> [type |-> "none", msg |-> ""],
              selected |-> <<>>, remaining |-> <<>>]

WebIdle ==
    /\ clock = 0
    /\ ticks = 0
    /\ session = <<>>
    /\ uploads = <<>>
    /\ resultsDir = FALSE
    /\ results = <<>>
    /\ guid = 0
    /\ started = 0
    /\ req = <<>>
    /\ last = [kind |-> "none"]

\* pd.read_csv has produced a table and the form has produced num_people.
InitPartition ==
    /\ df \in [columns : ColumnSets, data : SeqsUpTo(Cells, MaxRows)]
    /\ n \in 0..MaxN
    /\ outcome = NoOutcome
    /\ csv = <<>>
    /\ WebIdle

\* select_and_process_csv(filepath, n=num_people): raises, or returns one of
\* the partitions the two random samples can produce.
SelectAndProcess ==
    /\ outcome.status = "none"
    /\ LET err == select_error(df, n)
       IN IF err.type # "none"
          THEN outcome' = [NoOutcome EXCEPT !.status = "error", !.error = err]
          ELSE \E p \in select_and_process_csv(df, n) :
                  outcome' = [NoOutcome EXCEPT !.status = "ok",
                                               !.selected = p.selected,
                                               !.remaining = p.remaining]
    /\ UNCHANGED <<df, n, csv>>
    /\ UNCHANGED wvars

\* write_results_to_csv(selected_people, remaining_people, results_filepath)
WriteResults ==
    /\ outcome.status = "ok"
    /\ csv = <<>>
    /\ csv' = write_results_to_csv(outcome.selected, outcome.remaining)
    /\ UNCHANGED <<df, n, outcome>>
    /\ UNCHANGED wvars

NextPartition == SelectAndProcess \/ WriteResults

SpecPartition == InitPartition /\ [][NextPartition]_vars

----------------------------------------------------------------------------
\* Vocabulary of the partition claims.

Count(s, v) == Cardinality({i \in DOMAIN s : s[i] = v})
NoRepeat(s) == \A i, j \in DOMAIN s : i # j => s[i] # s[j]
NotBlank(v) == v # NaN

RosterRows == Len(df.data)
ValidRequest == "Name" \in df.columns /\ 1 <= n /\ n <= RosterRows
SelectedNames == values(outcome.selected)
RemainingNames == values(outcome.remaining)

\* Reading a written table back: the first row names the columns, an empty
\* field is a blank cell.
from_field(f) == IF f = "" THEN NaN ELSE f
ReadColumn(t, j) == [i \in 1..(Len(t) - 1) |-> from_field(t[i + 1][j])]
ReadBack(t) == SelectSeq(ReadColumn(t, 1) \o ReadColumn(t, 2), NotBlank)
Written == csv # <<>>

\* C1: for a roster with the name column and m rows and 1 <= n <= m, the call
\* returns (it does not raise), selected has exactly n entries and remaining
\* exactly m - n, whichever rows the samples picked.
C1_Sizes ==
    (ValidRequest /\ outcome.status # "none") =>
        /\ outcome.status = "ok"
        /\ Len(outcome.selected) = n
        /\ Len(outcome.remaining) = RosterRows - n

C1_Witness ==
    /\ outcome.status = "ok"
    /\ RosterRows = 3
    /\ n = 2
    /\ Len(outcome.selected) = 2
    /\ Len(outcome.remaining) = 1

\* C2 as stated: for every valid roster, names not required to be distinct,
\* the names of selected and remaining together are the roster's name set and
\* no name occurs in both sequences (here: for rosters without blank names).
C2_AsStated ==
    (ValidRequest /\ NaN \notin Range(df.data) /\ outcome.status = "ok") =>
        /\ Range(SelectedNames) \cup Range(RemainingNames) = Range(df.data)
        /\ Range(SelectedNames) \cap Range(RemainingNames) = {}

\* C2 amended: selected and remaining together hold every roster name exactly
\* as often as the roster does (so their union is the roster's name set and
\* every row lands in exactly one sequence); a name occurs in both sequences
\* only if the roster holds it more than once.
C2_RowPartition ==
    (ValidRequest /\ outcome.status = "ok") =>
        /\ \A v \in Cells :
              Count(SelectedNames, v) + Count(RemainingNames, v) = Count(df.data, v)
        /\ Range(SelectedNames) \cup Range(RemainingNames) = Range(df.data)
        /\ \A v \in Range(SelectedNames) \cap Range(RemainingNames) :
              Count(df.data, v) > 1
        /\ NoRepeat(df.data) =>
              Range(SelectedNames) \cap Range(RemainingNames) = {}

C2_Witness ==
    /\ outcome.status = "ok"
    /\ ValidRequest
    /\ RosterRows = 3
    /\ ~NoRepeat(df.data)
    /\ NaN \notin Range(df.data)
    /\ Range(SelectedNames) \cap Range(RemainingNames) # {}

\* C3: a roster without the configured column fails with the schema error,
\* also when it has fewer than n rows too (the column is checked first); a
\* roster with the column and fewer than n rows fails with the
\* insufficient-data error; neither returns a partition, and the two errors
\* differ.
C3_Errors ==
    outcome.status # "none" =>
        /\ "Name" \notin df.columns =>
              /\ outcome.status = "error"
              /\ outcome.error = ColumnNotFound
              /\ outcome.selected = <<>> /\ outcome.remaining = <<>>
        /\ ("Name" \in df.columns /\ RosterRows < n) =>
              /\ outcome.status = "error"
              /\ outcome.error = NotEnoughPeople
              /\ outcome.selected = <<>> /\ outcome.remaining = <<>>
        /\ outcome.status = "error" => csv = <<>>
        /\ ColumnNotFound.msg # NotEnoughPeople.msg

C3_Witness ==
    /\ outcome.status = "error"
    /\ "Name" \notin df.columns
    /\ RosterRows < n
    /\ outcome.error = ColumnNotFound

PaddedTable ==
    /\ Len(csv) = 1 + Max(Len(outcome.selected), Len(outcome.remaining))
    /\ csv[1] = <<"Selected People", "Remaining People">>
    /\ \A i \in 1..(Len(csv) - 1) :
          /\ Len(csv[i + 1]) = 2
          /\ csv[i + 1][1] = IF i <= Len(outcome.selected)
                             THEN to_field(SelectedNames[i]) ELSE ""
          /\ csv[i + 1][2] = IF i <= Len(outcome.remaining)
                             THEN to_field(RemainingNames[i]) ELSE ""

\* C4 as stated: for every roster, the written table has the two columns, the
\* shorter one padded with blanks, and the cells read back without the blanks
\* are exactly the roster's names, none lost and none occurring twice.
C4_AsStated ==
    (ValidRequest /\ Written) =>
        /\ PaddedTable
        /\ Range(ReadBack(csv)) = Range(df.data) \ {NaN}
        /\ NoRepeat(ReadBack(csv))

\* C4 amended: the written table has the two columns, the shorter one padded
\* with blanks, and the cells read back without the blanks hold every
\* non-blank roster name exactly as often as the roster does: no name is lost
\* and a name occurs twice only if the roster holds it twice.
C4_RoundTrip ==
    (ValidRequest /\ Written) =>
        /\ PaddedTable
        /\ \A v \in Names : Count(ReadBack(csv), v) = Count(df.data, v)
        /\ Range(ReadBack(csv)) = Range(df.data) \ {NaN}
        /\ NoRepeat(df.data) => NoRepeat(ReadBack(csv))

C4_Witness ==
    /\ Written
    /\ ValidRequest
    /\ RosterRows = 3
    /\ n = 1
    /\ csv[2][2] # ""
    /\ csv[3][1] = ""
    /\ ~NoRepeat(ReadBack(csv))

----------------------------------------------------------------------------
\* The web application: requests served by worker threads.

MaxTicks == 2
MaxRequests == 2

Threads == {"t1", "t2"}
TickSteps == {1, 24 * 60 * 60}
DefaultDays == 1

\* Filenames are sequences of characters.
NoFile == <<"<no file part>">>
CsvName == <<"a", ".", "c", "s", "v">>
DotCsvName == <<".", "C", "s", "V">>
UploadNames ==
    { CsvName,
      DotCsvName,
      <<"a", ".", "t", "x", "t">>,
      <<"c", "s", "v">>,
      <<"a", ".", "c", "s", "v", ".", "t">>,
      <<>> }
GoodRoster == [columns |-> {"Name"}, data |-> <<"Ann", "Bob">>]
UploadRosters == {GoodRoster, [columns |-> {"Email"}, data |-> <<"Ann", "Bob">>]}
FormNumPeople == {1, 3}
UserInfos == {"profile", "empty"}

ALLOWED_EXTENSIONS == {<<"c", "s", "v">>}

lower(c) ==
    CASE c = "C" -> "c"
      [] c = "S" -> "s"
      [] c = "V" -> "v"
      [] OTHER -> c

Lowered(f) == [i \in 1..Len(f) |-> lower(f[i])]

LastDot(f) ==
    LET dots == {i \in DOMAIN f : f[i] = "."}
    IN CHOOSE i \in dots : \A j \in dots : j <= i

\* filename.rsplit('.', 1): <<before the last dot, after the last dot>>
rsplit(f) == <<SubSeq(f, 1, LastDot(f) - 1), SubSeq(f, LastDot(f) + 1, Len(f))>>

allowed_file_case_sensitive(filename) ==
    /\ "." \in Range(filename)
    /\ rsplit(filename)[2] \in ALLOWED_EXTENSIONS

allowed_file(filename) ==
    /\ "." \in Range(filename)
    /\ Lowered(rsplit(filename)[2]) \in ALLOWED_EXTENSIONS

\* werkzeug's secure_filename on names made of letters and dots: leading and
\* trailing dots are stripped.
RECURSIVE secure_filename(_)
secure_filename(f) ==
    IF f = <<>> THEN f
    ELSE IF Head(f) = "." THEN secure_filename(Tail(f))
    ELSE IF f[Len(f)] = "." THEN secure_filename(SubSeq(f, 1, Len(f) - 1))
    ELSE f

Put(f, k, v) == [x \in DOMAIN f \cup {k} |-> IF x = k THEN v ELSE f[x]]
Drop(f, k) == [x \in DOMAIN f \ {k} |-> f[x]]

login_required_open(sess) == TRUE

\* login_required lets the handler run iff the session holds "user".
login_required(sess) == "user" \in DOMAIN sess

Cutoff_now(now, days) == now

\* cutoff = now - days * 24 * 60 * 60
Cutoff(now, days) == now - days * 24 * 60 * 60

IsOld_inclusive(file_mtime, cutoff) == file_mtime <= cutoff

\* if file_mtime < cutoff
IsOld(file_mtime, cutoff) == file_mtime < cutoff

IdleReq ==
    [pc |-> "idle", method |-> "", user |-> FALSE, t0 |-> 0,
     sweptDir |-> FALSE, cutoff |-> 0, listing |-> {}, cur |-> 0, mread |-> 0,
     failed |-> {}, removed |-> {},
     fname |-> NoFile, num |-> 0, file |-> 0,
     effects |-> {}, resp |-> ""]

NoRequest == [kind |-> "none", method |-> "", user |-> FALSE, resp |-> "",
              target |-> 0, found |-> FALSE]

\* The record of a request that is answered at once.
Entering(kind) == [NoRequest EXCEPT !.kind = kind]

Free(t) == req[t].pc \in {"idle", "done"}

\* The response is sent; the locals of the request are gone.
Finish(r, response) ==
    [r EXCEPT !.pc = "done", !.resp = response, !.listing = {}, !.cur = 0, !.mread = 0,
              !.sweptDir = FALSE, !.cutoff = 0, !.failed = {}, !.removed = {},
              !.num = 0, !.t0 = IF r.file = 0 THEN 0 ELSE r.t0]

InitWeb ==
    /\ df = [columns |-> {"Name"}, data |-> <<>>]
    /\ n = 0
    /\ outcome = NoOutcome
    /\ csv = <<>>
    /\ clock = 0
    /\ ticks = 0
    /\ session = [k \in {} |-> ""]
    /\ uploads = [k \in {} |-> ""]
    /\ resultsDir = FALSE
    /\ results = [k \in {} |-> ""]
    /\ guid = 0
    /\ started = 0
    /\ req = [t \in Threads |-> IdleReq]
    /\ last = NoRequest

\* time passes
Tick ==
    /\ ticks < MaxTicks
    /\ \E d \in TickSteps : clock' = clock + d
    /\ ticks' = ticks + 1
    /\ UNCHANGED <<session, uploads, resultsDir, results, guid, started, req, last>>
    /\ UNCHANGED pvars

\* GET /login
login(t) ==
    /\ Free(t)
    /\ last' = [Entering("login") EXCEPT !.resp = "redirect:authorize"]
    /\ UNCHANGED <<clock, ticks, session, uploads, resultsDir, results, guid, started, req>>
    /\ UNCHANGED pvars

\* GET /auth/callback: authorize_access_token raises, or the session is set to
\* whatever user_info came out (the profile, or {} when userinfo failed).
auth_callback(t, infos) ==
    /\ Free(t)
    /\ \/ /\ last' = [Entering("auth_callback") EXCEPT !.resp = "500 OAuthError"]
          /\ UNCHANGED session
       \/ \E user_info \in infos :
            /\ session' = Put(session, "user", user_info)
            /\ last' = [Entering("auth_callback") EXCEPT !.resp = "redirect:/"]
    /\ UNCHANGED <<clock, ticks, uploads, resultsDir, results, guid, started, req>>
    /\ UNCHANGED pvars

\* GET /logout
logout(t) ==
    /\ Free(t)
    /\ session' = Drop(session, "user")
    /\ last' = [Entering("logout") EXCEPT !.resp = "redirect:/login"]
    /\ UNCHANGED <<clock, ticks, uploads, resultsDir, results, guid, started, req>>
    /\ UNCHANGED pvars

\* GET /download/<filename>: behind login_required; the handler calls
\* send_from_directory, a name the module never imports.
download_file(t) ==
    /\ Free(t)
    /\ \E f \in 1..MaxRequests :
         last' = [Entering("download") EXCEPT
                    !.user = ("user" \in DOMAIN session),
                    !.target = f,
                    !.found = (f \in DOMAIN results /\ results[f].announced),
                    !.resp = IF login_required(session)
                             THEN "500 NameError" ELSE "redirect:/login"]
    /\ UNCHANGED <<clock, ticks, session, uploads, resultsDir, results, guid, started, req>>
    /\ UNCHANGED pvars

\* ---- cleanup_old_results(), the first statement of index ----

AfterFile(r) == IF r.listing = {} THEN [r EXCEPT !.pc = "handler", !.cur = 0, !.mread = 0]
                ELSE [r EXCEPT !.pc = "sweep", !.cur = 0, !.mread = 0]

\* the folder check, now, cutoff and os.listdir of cleanup_old_results(days)
cleanup_start(r, days) ==
    IF ~resultsDir
    THEN [r EXCEPT !.pc = "handler", !.effects = @ \cup {"sweep"}]
    ELSE AfterFile([r EXCEPT !.effects = @ \cup {"sweep"},
                             !.sweptDir = TRUE,
                             !.cutoff = Cutoff(clock, days),
                             !.listing = DOMAIN results])

index_sweeps_on_post_only(r) ==
    IF r.method = "POST" THEN cleanup_start(r, DefaultDays) ELSE [r EXCEPT !.pc = "handler"]

\* index begins with cleanup_old_results()
index_begin(r) == cleanup_start(r, DefaultDays)

\* GET or POST /: behind login_required; an authenticated request occupies the
\* worker thread until it responds.
index(t) ==
    /\ Free(t)
    /\ \E method \in {"GET", "POST"} :
         IF login_required(session)
         THEN /\ started < MaxRequests
              /\ started' = started + 1
              /\ req' = [req EXCEPT ![t] =
                           index_begin([IdleReq EXCEPT !.method = method,
                                                       !.user = ("user" \in DOMAIN session),
                                                       !.t0 = clock])]
              /\ last' = last
         ELSE /\ UNCHANGED <<started, req>>
              /\ last' = [Entering("index") EXCEPT !.method = method,
                                                   !.resp = "redirect:/login"]
    /\ UNCHANGED <<clock, ticks, session, uploads, resultsDir, results, guid>>
    /\ UNCHANGED pvars

\* the next filename of the listing and os.path.isfile
SweepNext(t) ==
    /\ req[t].pc = "sweep"
    /\ \E f \in req[t].listing :
         req' = [req EXCEPT ![t] =
                   IF f \in DOMAIN results
                   THEN [@ EXCEPT !.pc = "getmtime", !.cur = f, !.listing = @ \ {f}]
                   ELSE AfterFile([@ EXCEPT !.listing = @ \ {f}])]
    /\ UNCHANGED <<clock, ticks, session, uploads, resultsDir, results, guid, started, last>>
    /\ UNCHANGED pvars

\* os.path.getmtime and the comparison with the cutoff; getmtime raises when
\* the file is gone, and nothing around cleanup_old_results catches that.
SweepGetmtime(t) ==
    /\ req[t].pc = "getmtime"
    /\ req' = [req EXCEPT ![t] =
                 IF req[t].cur \notin DOMAIN results
                 THEN Finish(@, "500 FileNotFoundError")
                 ELSE IF IsOld(results[req[t].cur].mtime, req[t].cutoff)
                      THEN [@ EXCEPT !.pc = "remove", !.mread = results[req[t].cur].mtime]
                      ELSE AfterFile(@)]
    /\ UNCHANGED <<clock, ticks, session, uploads, resultsDir, results, guid, started, last>>
    /\ UNCHANGED pvars

\* os.remove inside try: the file is removed, or it is already gone and the
\* exception is caught.
SweepRemove(t) ==
    /\ req[t].pc = "remove"
    /\ IF req[t].cur \in DOMAIN results
       THEN /\ results' = Drop(results, req[t].cur)
            /\ req' = [req EXCEPT ![t] =
                         AfterFile([@ EXCEPT !.removed =
                                       @ \cup {[f |-> req[t].cur, mtime |-> req[t].mread]}])]
       ELSE /\ results' = results
            /\ req' = [req EXCEPT ![t] =
                         AfterFile([@ EXCEPT !.failed = @ \cup {req[t].cur}])]
    /\ UNCHANGED <<clock, ticks, session, uploads, resultsDir, guid, started, last>>
    /\ UNCHANGED pvars

\* os.remove inside try: the operating system refuses (the except branch);
\* the file stays and the loop goes on.
SweepRemoveFails(t) ==
    /\ req[t].pc = "remove"
    /\ req[t].cur \in DOMAIN results
    /\ req' = [req EXCEPT ![t] = AfterFile([@ EXCEPT !.failed = @ \cup {req[t].cur}])]
    /\ UNCHANGED <<clock, ticks, session, uploads, resultsDir, results, guid, started, last>>
    /\ UNCHANGED pvars

\* ---- the rest of index ----

ExceptPath(r) == Finish(r, "redirect:/ flash str(e)")

\* request.method, the file part, the filename, the form and allowed_file
Handler(t, filenames, delays) ==
    /\ req[t].pc = "handler"
    /\ IF req[t].method = "GET"
       THEN req' = [req EXCEPT ![t] = Finish(@, "200 index.html")]
       ELSE \E filename \in filenames, num_people \in FormNumPeople, has_delay \in delays :
              req' = [req EXCEPT ![t] =
                 IF filename = NoFile
                 THEN Finish(@, "redirect:/ flash No file part")
                 ELSE IF filename = <<>>
                 THEN Finish([@ EXCEPT !.fname = filename],
                             "redirect:/ flash No selected file")
                 ELSE IF ~has_delay
                 THEN Finish([@ EXCEPT !.fname = filename], "500 TypeError")
                 ELSE IF allowed_file(filename)
                 THEN [@ EXCEPT !.pc = "save", !.fname = filename, !.num = num_people,
                                !.sweptDir = FALSE, !.cutoff = 0,
                                !.failed = {}, !.removed = {}]
                 ELSE Finish([@ EXCEPT !.fname = filename], "200 index.html")]
    /\ UNCHANGED <<clock, ticks, session, uploads, resultsDir, results, guid, started, last>>
    /\ UNCHANGED pvars

\* filename = secure_filename(...); file.save(filepath)
Save(t, rosters) ==
    /\ req[t].pc = "save"
    /\ \E content \in rosters :
         uploads' = Put(uploads, secure_filename(req[t].fname), content)
    /\ req' = [req EXCEPT ![t] = [@ EXCEPT !.pc = "select", !.effects = @ \cup {"save"}]]
    /\ UNCHANGED <<clock, ticks, session, resultsDir, results, guid, started, last>>
    /\ UNCHANGED pvars

\* select_and_process_csv(filepath, n=num_people): read_csv raises when the
\* upload is gone, the checks raise, or a partition is returned.
Select(t) ==
    /\ req[t].pc = "select"
    /\ LET filepath == secure_filename(req[t].fname)
           called == [req[t] EXCEPT !.effects = @ \cup {"partition"}]
       IN req' = [req EXCEPT ![t] =
                    IF filepath \notin DOMAIN uploads
                    THEN ExceptPath(called)
                    ELSE IF select_error(uploads[filepath], req[t].num).type # "none"
                    THEN ExceptPath(called)
                    ELSE [called EXCEPT !.pc = "mkdir"]]
    /\ UNCHANGED <<clock, ticks, session, uploads, resultsDir, results, guid, started, last>>
    /\ UNCHANGED pvars

\* if not os.path.exists(RESULTS_FOLDER)
MkdirCheck(t) ==
    /\ req[t].pc = "mkdir"
    /\ req' = [req EXCEPT ![t] = [@ EXCEPT !.pc = IF resultsDir THEN "open" ELSE "makedirs"]]
    /\ UNCHANGED <<clock, ticks, session, uploads, resultsDir, results, guid, started, last>>
    /\ UNCHANGED pvars

\* os.makedirs(RESULTS_FOLDER): raises FileExistsError when another request
\* created the folder since the check.
Makedirs(t) ==
    /\ req[t].pc = "makedirs"
    /\ IF resultsDir
       THEN /\ req' = [req EXCEPT ![t] = ExceptPath(@)]
            /\ resultsDir' = resultsDir
       ELSE /\ req' = [req EXCEPT ![t] = [@ EXCEPT !.pc = "open"]]
            /\ resultsDir' = TRUE
    /\ UNCHANGED <<clock, ticks, session, uploads, results, guid, started, last>>
    /\ UNCHANGED pvars

\* uuid4, results_filename and to_csv opening the file: it exists, empty.
WriteOpen(t) ==
    /\ req[t].pc = "open"
    /\ guid' = guid + 1
    /\ results' = Put(results, guid + 1,
                      [mtime |-> clock, content |-> "partial", announced |-> FALSE])
    /\ req' = [req EXCEPT ![t] = [@ EXCEPT !.pc = "write", !.file = guid + 1,
                                           !.effects = @ \cup {"write"}]]
    /\ UNCHANGED <<clock, ticks, session, uploads, resultsDir, started, last>>
    /\ UNCHANGED pvars

\* to_csv writing the table and closing the file
WriteData(t) ==
    /\ req[t].pc = "write"
    /\ results' = IF req[t].file \in DOMAIN results
                  THEN [results EXCEPT ![req[t].file] =
                           [@ EXCEPT !.content = "complete", !.mtime = clock]]
                  ELSE results
    /\ req' = [req EXCEPT ![t] = [@ EXCEPT !.pc = "rm_upload"]]
    /\ UNCHANGED <<clock, ticks, session, uploads, resultsDir, guid, started, last>>
    /\ UNCHANGED pvars

\* os.remove(filepath), then render_template('results.html', ...)
RemoveUpload(t) ==
    /\ req[t].pc = "rm_upload"
    /\ LET filepath == secure_filename(req[t].fname)
       IN IF filepath \notin DOMAIN uploads
          THEN /\ req' = [req EXCEPT ![t] = ExceptPath(@)]
               /\ UNCHANGED <<uploads, results>>
          ELSE /\ uploads' = Drop(uploads, filepath)
               /\ req' = [req EXCEPT ![t] = Finish(@, "200 results.html")]
               /\ results' = IF req[t].file \in DOMAIN results
                             THEN [results EXCEPT ![req[t].file].announced = TRUE]
                             ELSE results
    /\ UNCHANGED <<clock, ticks, session, resultsDir, guid, started, last>>
    /\ UNCHANGED pvars

\* One browser, one request at a time, every endpoint and every kind of upload.
NextWeb ==
    \/ Tick
    \/ login("t1")
    \/ auth_callback("t1", UserInfos)
    \/ logout("t1")
    \/ download_file("t1")
    \/ index("t1")
    \/ SweepNext("t1")
    \/ SweepGetmtime("t1")
    \/ SweepRemove("t1")
    \/ SweepRemoveFails("t1")
    \/ Handler("t1", UploadNames \cup {NoFile}, BOOLEAN)
    \/ Save("t1", UploadRosters)
    \/ Select("t1")
    \/ MkdirCheck("t1")
    \/ Makedirs("t1")
    \/ WriteOpen("t1")
    \/ WriteData("t1")
    \/ RemoveUpload("t1")

SpecWeb == InitWeb /\ [][NextWeb]_vars

\* Concurrent index requests of a logged-in browser on the shared folders.
NextFiles ==
    \/ Tick
    \/ \E t \in Threads :
         \/ (~login_required(session) /\ auth_callback(t, {"profile"}))
         \/ index(t)
         \/ SweepNext(t)
         \/ SweepGetmtime(t)
         \/ SweepRemove(t)
         \/ SweepRemoveFails(t)
         \/ Handler(t, {CsvName, DotCsvName}, {TRUE})
         \/ Save(t, {GoodRoster})
         \/ Select(t)
         \/ MkdirCheck(t)
         \/ Makedirs(t)
         \/ WriteOpen(t)
         \/ WriteData(t)
         \/ RemoveUpload(t)

SpecFiles == InitWeb /\ [][NextFiles]_vars

----------------------------------------------------------------------------
\* Vocabulary of the web claims.

AgeThreshold == DefaultDays * 24 * 60 * 60
LoggedIn == "user" \in DOMAIN session

\* The part after the last dot is "csv" in some letter case.
ExtIsCsv(f) ==
    \E i \in DOMAIN f :
        /\ f[i] = "."
        /\ Len(f) = i + 3
        /\ f[i + 1] \in {"c", "C"}
        /\ f[i + 2] \in {"s", "S"}
        /\ f[i + 3] \in {"v", "V"}

PartitionEffects == {"save", "partition", "write"}

\* C5: a POST whose filename has no extension equal to "csv" (in any letter
\* case) ends without the upload saved, select_and_process_csv called or a
\* results file written; one whose extension is "csv" in any letter case gets
\* past the check and is saved (the form's delay being present).
C5_ExtensionGate ==
    \A t \in Threads :
        LET r == req[t]
        IN (r.method = "POST" /\ r.fname # NoFile) =>
             /\ ~ExtIsCsv(r.fname) =>
                   /\ r.pc = "done"
                   /\ r.effects \cap PartitionEffects = {}
                   /\ r.file = 0
                   /\ r.resp # "200 results.html"
             /\ ExtIsCsv(r.fname) =>
                   \/ r.pc = "done" /\ r.resp = "500 TypeError" /\ r.effects = {"sweep"}
                   \/ r.pc = "save"
                   \/ "save" \in r.effects

C5_Witness ==
    /\ req["t1"].method = "POST"
    /\ req["t1"].fname = <<"a", ".", "c", "s", "v", ".", "t">>
    /\ req["t1"].pc = "done"
    /\ req["t1"].resp = "200 index.html"
    /\ DOMAIN uploads = {}

C6_Inv ==
    /\ \A t \in Threads : req[t].pc # "idle" => req[t].user
    /\ (last.kind \in {"index", "download"} /\ ~last.user) => last.resp = "redirect:/login"

C6_Step ==
    /\ (~LoggedIn /\ LoggedIn') => (last'.kind = "auth_callback" /\ last'.resp = "redirect:/")
    /\ (LoggedIn /\ ~LoggedIn') => last'.kind = "logout"
    /\ (last' # last /\ last'.kind = "logout") => ~LoggedIn'
    /\ (~LoggedIn /\ last' # last /\ last'.kind \in {"index", "download"}) =>
          /\ last'.resp = "redirect:/login"
          /\ UNCHANGED <<session, uploads, resultsDir, results, guid, started, req>>
    /\ (~LoggedIn /\ ~LoggedIn') => UNCHANGED <<uploads, resultsDir, results, guid, started>>

\* C6: an index or download request made while the session holds no "user" is
\* answered with a redirect to the login endpoint and changes nothing (no
\* sweep, no upload, no partition, no results file written or served); only a
\* request being served with "user" in the session ever occupies a handler; the
\* session gains "user" only by auth_callback and loses it only by logout.
C6_LoginRequired == []C6_Inv /\ [][C6_Step]_vars

C6_Witness ==
    /\ last.kind = "download"
    /\ ~last.user
    /\ last.resp = "redirect:/login"
    /\ last.target \in DOMAIN results
    /\ ~LoggedIn

\* C7: an authenticated download of a results file that a successful partition
\* request wrote and announced, and that no sweep has removed, returns the file.
C7_DownloadServes ==
    (last.kind = "download" /\ last.user /\ last.found) => last.resp = "200 file"

SweepDone(t) == req[t].pc = "handler" /\ req[t].sweptDir

\* C8 as stated: when the sweep of an existing results folder completes, no
\* (completely written) file older than the cutoff is left, only files older
\* than the cutoff were removed, and every authenticated index request began
\* with the one-day sweep.
C8_AsStated ==
    \A t \in Threads :
        /\ SweepDone(t) =>
              \A f \in DOMAIN results :
                  results[f].content = "complete" => ~(results[f].mtime < req[t].cutoff)
        /\ \A x \in req[t].removed : x.mtime < req[t].cutoff
        /\ req[t].sweptDir => req[t].cutoff = req[t].t0 - AgeThreshold
        /\ req[t].pc # "idle" => "sweep" \in req[t].effects

\* C8 amended: when the sweep of an existing results folder completes, every
\* file older than the cutoff is absent unless os.remove raised for it (it
\* then stays in place); the sweep removed only files whose modification time,
\* as it read it, was before the cutoff, and these stay absent; the sweep runs
\* with the one-day threshold at the start of every authenticated index
\* request, GET or POST.
C8_Sweep ==
    \A t \in Threads :
        /\ SweepDone(t) =>
              \A f \in DOMAIN results :
                  results[f].mtime < req[t].cutoff => f \in req[t].failed
        /\ \A x \in req[t].removed :
              x.mtime < req[t].cutoff /\ x.f \notin DOMAIN results
        /\ req[t].sweptDir => req[t].cutoff = req[t].t0 - AgeThreshold
        /\ req[t].pc # "idle" => "sweep" \in req[t].effects

C8_Witness ==
    \E t \in Threads :
        /\ SweepDone(t)
        /\ req[t].method = "GET"
        /\ req[t].removed # {}
        /\ req[t].cutoff > 0
        /\ DOMAIN results = {}

\* C9: when a POST ends on its error path, the results folder holds no file
\* that this request created.
C9_NoLeftover ==
    \A t \in Threads :
        (req[t].pc = "done" /\ req[t].resp = "redirect:/ flash str(e)") =>
            req[t].file \notin DOMAIN results

\* C10: while less than the age threshold has passed since a request began, the
\* results file it has created is in the results folder whatever sweeps ran in
\* between, partial while it is being written and complete from the end of the
\* write on, so also when the request responds.
C10_SweepSparesWriter ==
    \A t \in Threads :
        LET r == req[t]
        IN (r.file # 0 /\ clock - r.t0 < AgeThreshold) =>
             /\ r.file \in DOMAIN results
             /\ r.pc = "write" => results[r.file].content = "partial"
             /\ r.pc \in {"rm_upload", "done"} => results[r.file].content = "complete"

C10_Witness ==
    \E t, u \in Threads :
        /\ req[t].pc = "write"
        /\ clock - req[t].t0 < AgeThreshold
        /\ req[u].pc = "getmtime"
        /\ req[u].cur = req[t].file
        /\ results[req[t].file].content = "partial"

====
